---- MODULE Spec2Model ----
(***************************************************************************)
(* Model of klippy/extras/gcode_move.py (class GCodeMove): the G-code      *)
(* coordinate state (mode flags, last/base/homing position, speed and      *)
(* extrude factors), the move transform binding, the named saved states,   *)
(* and one action per command handler and per event handler.               *)
(*                                                                         *)
(* Python floats are modelled as exact rationals <<n, d>> in lowest terms  *)
(* (d > 0): the arithmetic is the code's arithmetic without rounding.      *)
(* Lists are tuples indexed 1..4 for X, Y, Z, E (Python index + 1).        *)
(* A command parameter is a record [t, v]: t = "none" (absent), "bad"     *)
(* (present, float()/int() raises ValueError) or "num" (present, value v). *)
(*                                                                         *)
(* Not modelled: cmd_SOVOL_GET_STATE and the contents of the files the     *)
(* power-loss-recovery block of cmd_G1 writes; that block is modelled by   *)
(* its only effect on this object, raising before the move is parsed.      *)
(* The variable op records the operation that produced the current state   *)
(* (its name, arguments, result and the provider calls it made), pre is    *)
(* the coordinate state that operation started from, since tells for each  *)
(* saved name what has run since it was saved ("saved": nothing,           *)
(* "extruded": only successful moves with an E value, "other"), op.hist is *)
(* since before the operation, and steps counts operations; none of these  *)
(* is a field of GCodeMove.                                                *)
(***************************************************************************)
EXTENDS Integers, Sequences, FiniteSets, TLC

VARIABLES absolute_coord, absolute_extrude, base_position, last_position,
          homing_position, speed, speed_factor, extrude_factor,
          saved_states, move_transform, move_with_transform,
          position_with_transform, is_printer_ready, v_sd, op, pre, since,
          steps

gvars == <<absolute_coord, absolute_extrude, base_position, last_position,
           homing_position, speed, speed_factor, extrude_factor>>
bvars == <<move_transform, move_with_transform, position_with_transform>>
vars == <<absolute_coord, absolute_extrude, base_position, last_position,
          homing_position, speed, speed_factor, extrude_factor,
          saved_states, move_transform, move_with_transform,
          position_with_transform, is_printer_ready, v_sd, op, pre, since,
          steps>>

\* Number of operations (commands and events) in a run.
MaxSteps == 4

-----------------------------------------------------------------------------
\* Exact rational arithmetic standing for Python float arithmetic.

Abs(x) == IF x < 0 THEN -x ELSE x

RECURSIVE GCD(_, _)
GCD(a, b) == IF b = 0 THEN a ELSE GCD(b, a % b)

Rat(n, d) ==
    LET s == IF d < 0 THEN -1 ELSE 1
        g == GCD(Abs(n), Abs(d))
    IN  <<(s * n) \div g, (s * d) \div g>>

Zero == <<0, 1>>
One == <<1, 1>>
Num(n) == <<n, 1>>
RAdd(a, b) == Rat(a[1] * b[2] + b[1] * a[2], a[2] * b[2])
RSub(a, b) == Rat(a[1] * b[2] - b[1] * a[2], a[2] * b[2])
RMul(a, b) == Rat(a[1] * b[1], a[2] * b[2])
RDiv(a, b) == Rat(a[1] * b[2], a[2] * b[1])
RLe(a, b) == a[1] * b[2] <= b[1] * a[2]
RLt(a, b) == a[1] * b[2] < b[1] * a[2]

ZeroPos == <<Zero, Zero, Zero, Zero>>

-----------------------------------------------------------------------------
\* Command parameters.

NoParam == [t |-> "none", v |-> Zero]
BadParam == [t |-> "bad", v |-> Zero]
NumParam(r) == [t |-> "num", v |-> r]

\* 'XYZE' / 'XYZ' as enumerate() walks them, 1-based.
AxisLetter == <<"X", "Y", "Z", "E">>
MoveLetter == <<"X", "Y", "Z", "E", "F">>

-----------------------------------------------------------------------------
\* Read-only views.

_get_gcode_position ==
    [i \in 1..4 |->
        IF i = 4
        THEN RDiv(RSub(last_position[4], base_position[4]), extrude_factor)
        ELSE RSub(last_position[i], base_position[i])]

_get_gcode_speed == RDiv(speed, speed_factor)

_get_gcode_speed_override == RMul(speed_factor, Num(60))

\* The dictionary cmd_SAVE_GCODE_STATE builds.
StateDict ==
    [absolute_coord |-> absolute_coord,
     absolute_extrude |-> absolute_extrude,
     base_position |-> base_position,
     last_position |-> last_position,
     homing_position |-> homing_position,
     speed |-> speed,
     speed_factor |-> speed_factor,
     extrude_factor |-> extrude_factor]

-----------------------------------------------------------------------------
\* Initial state: GCodeMove.__init__.

Init ==
    /\ absolute_coord = TRUE
    /\ absolute_extrude = TRUE
    /\ base_position = ZeroPos
    /\ last_position = ZeroPos
    /\ homing_position = ZeroPos
    /\ speed = Num(25)
    /\ speed_factor = Rat(1, 60)
    /\ extrude_factor = One
    /\ saved_states = [n \in {} |-> n]
    /\ move_transform = "None"
    /\ move_with_transform = "None"
    /\ position_with_transform = "lambda"
    /\ is_printer_ready = FALSE
    /\ v_sd = "unset"
    /\ op = [name |-> "init", args |-> <<>>, err |-> "ok", moves |-> <<>>,
             ret |-> "None", hist |-> [n \in {} |-> n]]
    /\ pre = StateDict
    /\ since = [n \in {} |-> n]
    /\ steps = 0

\* Bookkeeping of the operation just run.
Since(name, args, err) ==
    LET extrusion == name = "G1" /\ err = "ok" /\ args["E"].t = "num"
        later == [n \in DOMAIN since |->
                    IF extrusion /\ since[n] # "other" THEN "extruded" ELSE "other"]
    IN  IF name = "SAVE_GCODE_STATE"
        THEN (IF args.NAME.t = "none" THEN "default" ELSE args.NAME.v) :> "saved" @@ later
        ELSE later

Ran(name, args, err, moves, ret) ==
    /\ op' = [name |-> name, args |-> args, err |-> err, moves |-> moves,
              ret |-> ret, hist |-> since]
    /\ pre' = StateDict
    /\ since' = Since(name, args, err)
    /\ steps' = steps + 1

\* The call self.move_with_transform(pos, spd): TypeError while it is None.
MoveErr == IF move_with_transform = "None" THEN "internal" ELSE "ok"
MoveCalls(pos, spd) ==
    IF move_with_transform = "None" THEN <<>>
    ELSE <<[to |-> move_with_transform, pos |-> pos, speed |-> spd]>>

-----------------------------------------------------------------------------
\* cmd_G1 (also registered as G0).

\* Input alphabet of a move: the value each letter carries when numeric.
MoveValue(a) ==
    CASE a = "X" -> {Num(1)}
      [] a = "Y" -> {Num(2)}
      [] a = "Z" -> {Num(3)}
      [] a = "E" -> {Num(1)}
      [] a = "F" -> {Num(0), Num(60)}

MoveParam(a) == {NoParam, BadParam} \cup {NumParam(r) : r \in MoveValue(a)}

G1Params ==
    {p \in [{"X", "Y", "Z", "E", "F"} -> UNION {MoveParam(a) : a \in {"X", "Y", "Z", "E", "F"}}] :
        \A a \in {"X", "Y", "Z", "E", "F"} : p[a] \in MoveParam(a)}

\* Lines 135-158: entered when G, X, Y and Z are all in params.  Reading
\* self.v_sd raises AttributeError before the first ready event; afterwards
\* the block is skipped, runs, or raises (v_sd is None, float(Z), file I/O).
PersistOutcomes(p) ==
    IF \E a \in {"X", "Y", "Z"} : p[a].t = "none" THEN {"skip"}
    ELSE IF v_sd = "unset" THEN {"raise"}
    ELSE {"skip", "raise"}

\* Whether parameter k of 'XYZEF' raises inside the try block.
G1Fails(p, k) ==
    \/ p[MoveLetter[k]].t = "bad"
    \/ k = 5 /\ p["F"].t = "num" /\ RLe(p["F"].v, Zero)

\* Position (1..5) of the first parameter that raises, 6 when none does.
G1Stop(p) ==
    IF \E k \in 1..5 : G1Fails(p, k)
    THEN CHOOSE k \in 1..5 : G1Fails(p, k) /\ \A j \in 1..(k - 1) : ~G1Fails(p, j)
    ELSE 6

G1Error(p) ==
    IF G1Stop(p) = 6 THEN "ok"
    ELSE IF p[MoveLetter[G1Stop(p)]].t = "bad" THEN "parse"
    ELSE "invalid"

\* G1Axis with relative placement whatever absolute_coord is.
G1Axis_Relative(pos, v) == RAdd(last_position[pos], v)

\* G1Axis with the absolute branch forgetting base_position.
G1Axis_NoBase(pos, v) ==
    IF ~absolute_coord THEN RAdd(last_position[pos], v) ELSE v

\* Lines 162-168: one of X, Y, Z.
G1Axis(pos, v) ==
    IF ~absolute_coord
    THEN RAdd(last_position[pos], v)
    ELSE RAdd(v, base_position[pos])

\* G1Extrude taking the relative branch only when both flags are relative.
G1Extrude_And(e) ==
    LET v == RMul(e, extrude_factor)
    IN  IF ~absolute_coord /\ ~absolute_extrude
        THEN RAdd(last_position[4], v)
        ELSE RAdd(v, base_position[4])

\* Lines 170-176: E.
G1Extrude(e) ==
    LET v == RMul(e, extrude_factor)
    IN  IF ~absolute_coord \/ ~absolute_extrude
        THEN RAdd(last_position[4], v)
        ELSE RAdd(v, base_position[4])

\* last_position when the try block is left (normally or by an exception).
G1Position(p) ==
    [i \in 1..4 |->
        IF p[AxisLetter[i]].t = "num" /\ i < G1Stop(p)
        THEN IF i = 4 THEN G1Extrude(p["E"].v) ELSE G1Axis(i, p[AxisLetter[i]].v)
        ELSE last_position[i]]

\* Lines 177-182: self.speed when the try block is left.
G1Speed(p) ==
    IF p["F"].t = "num" /\ G1Stop(p) = 6
    THEN RMul(p["F"].v, speed_factor)
    ELSE speed

cmd_G1(p, persist) ==
    /\ steps < MaxSteps
    /\ persist \in PersistOutcomes(p)
    /\ IF persist = "raise"
       THEN /\ UNCHANGED gvars
            /\ Ran("G1", p, "internal", <<>>, "None")
       ELSE /\ last_position' = G1Position(p)
            /\ speed' = G1Speed(p)
            /\ UNCHANGED <<absolute_coord, absolute_extrude, base_position,
                           homing_position, speed_factor, extrude_factor>>
            /\ IF G1Error(p) # "ok"
               THEN Ran("G1", p, G1Error(p), <<>>, "None")
               ELSE Ran("G1", p, MoveErr,
                        MoveCalls(G1Position(p), G1Speed(p)), "None")
    /\ UNCHANGED <<saved_states, move_transform, move_with_transform,
                   position_with_transform, is_printer_ready, v_sd>>

-----------------------------------------------------------------------------
\* cmd_G20, cmd_G21, cmd_M82, cmd_M83, cmd_G90, cmd_G91, cmd_M114.

cmd_G20 ==
    /\ steps < MaxSteps
    /\ Ran("G20", <<>>, "unsupported", <<>>, "None")
    /\ UNCHANGED <<gvars, bvars, saved_states, is_printer_ready, v_sd>>

cmd_G21 ==
    /\ steps < MaxSteps
    /\ Ran("G21", <<>>, "ok", <<>>, "None")
    /\ UNCHANGED <<gvars, bvars, saved_states, is_printer_ready, v_sd>>

cmd_M82 ==
    /\ steps < MaxSteps
    /\ absolute_extrude' = TRUE
    /\ Ran("M82", <<>>, "ok", <<>>, "None")
    /\ UNCHANGED <<absolute_coord, base_position, last_position,
                   homing_position, speed, speed_factor, extrude_factor,
                   bvars, saved_states, is_printer_ready, v_sd>>

cmd_M83 ==
    /\ steps < MaxSteps
    /\ absolute_extrude' = FALSE
    /\ Ran("M83", <<>>, "ok", <<>>, "None")
    /\ UNCHANGED <<absolute_coord, base_position, last_position,
                   homing_position, speed, speed_factor, extrude_factor,
                   bvars, saved_states, is_printer_ready, v_sd>>

cmd_G90 ==
    /\ steps < MaxSteps
    /\ absolute_coord' = TRUE
    /\ Ran("G90", <<>>, "ok", <<>>, "None")
    /\ UNCHANGED <<absolute_extrude, base_position, last_position,
                   homing_position, speed, speed_factor, extrude_factor,
                   bvars, saved_states, is_printer_ready, v_sd>>

cmd_G91 ==
    /\ steps < MaxSteps
    /\ absolute_coord' = FALSE
    /\ Ran("G91", <<>>, "ok", <<>>, "None")
    /\ UNCHANGED <<absolute_extrude, base_position, last_position,
                   homing_position, speed, speed_factor, extrude_factor,
                   bvars, saved_states, is_printer_ready, v_sd>>

cmd_M114 ==
    /\ steps < MaxSteps
    /\ Ran("M114", <<>>, "ok", <<>>, "None")
    /\ UNCHANGED <<gvars, bvars, saved_states, is_printer_ready, v_sd>>

-----------------------------------------------------------------------------
\* gcmd.get_float(name, default, above=0.) and gcmd.get_int(name, default).

FloatErr(x) == IF x.t = "bad" THEN "parse" ELSE "ok"

FloatAboveErr(x) ==
    IF x.t = "bad" THEN "parse"
    ELSE IF x.t = "num" /\ RLe(x.v, Zero) THEN "invalid"
    ELSE "ok"

FloatOr(x, default) == IF x.t = "num" THEN x.v ELSE default

-----------------------------------------------------------------------------
\* cmd_G92.

G92Error(a) == IF \E i \in 1..4 : a[AxisLetter[i]].t = "bad" THEN "parse" ELSE "ok"

\* G92Base without line 212 (the E value is not scaled).
G92Base_Unscaled(a) ==
    IF \A i \in 1..4 : a[AxisLetter[i]].t = "none"
    THEN last_position
    ELSE [i \in 1..4 |->
            IF a[AxisLetter[i]].t = "num"
            THEN RSub(last_position[i], a[AxisLetter[i]].v)
            ELSE base_position[i]]

\* Lines 209-215.
G92Base(a) ==
    IF \A i \in 1..4 : a[AxisLetter[i]].t = "none"
    THEN last_position
    ELSE [i \in 1..4 |->
            IF a[AxisLetter[i]].t = "num"
            THEN RSub(last_position[i],
                      IF i = 4 THEN RMul(a["E"].v, extrude_factor)
                      ELSE a[AxisLetter[i]].v)
            ELSE base_position[i]]

cmd_G92(a) ==
    /\ steps < MaxSteps
    /\ base_position' = IF G92Error(a) = "ok" THEN G92Base(a) ELSE base_position
    /\ Ran("G92", a, G92Error(a), <<>>, "None")
    /\ UNCHANGED <<absolute_coord, absolute_extrude, last_position,
                   homing_position, speed, speed_factor, extrude_factor,
                   bvars, saved_states, is_printer_ready, v_sd>>

-----------------------------------------------------------------------------
\* cmd_M220 and cmd_M221.

\* Line 222.
M220Value(a) == RDiv(FloatOr(a.S, Num(100)), Num(6000))

\* M220Speed keeping self.speed as it is.
M220Speed_Kept(a) == speed

\* Line 223.
M220Speed(a) == RMul(_get_gcode_speed, M220Value(a))

\* cmd_M220 checking S > 0 only after lines 223-224 have run.
cmd_M220_CheckedLate(a) ==
    /\ steps < MaxSteps
    /\ IF FloatErr(a.S) # "ok"
       THEN UNCHANGED <<speed, speed_factor>>
       ELSE /\ speed' = M220Speed(a)
            /\ speed_factor' = M220Value(a)
    /\ Ran("M220", a, FloatAboveErr(a.S), <<>>, "None")
    /\ UNCHANGED <<absolute_coord, absolute_extrude, base_position,
                   last_position, homing_position, extrude_factor,
                   bvars, saved_states, is_printer_ready, v_sd>>

cmd_M220(a) ==
    /\ steps < MaxSteps
    /\ IF FloatAboveErr(a.S) # "ok"
       THEN UNCHANGED <<speed, speed_factor>>
       ELSE /\ speed' = M220Speed(a)
            /\ speed_factor' = M220Value(a)
    /\ Ran("M220", a, FloatAboveErr(a.S), <<>>, "None")
    /\ UNCHANGED <<absolute_coord, absolute_extrude, base_position,
                   last_position, homing_position, extrude_factor,
                   bvars, saved_states, is_printer_ready, v_sd>>

\* Line 227.
M221Factor(a) == RDiv(FloatOr(a.S, Num(100)), Num(100))

\* M221BaseE with e_value not divided by the old extrude_factor.
M221BaseE_NoOldFactor(new_extrude_factor) ==
    LET last_e_pos == last_position[4]
        e_value == RSub(last_e_pos, base_position[4])
    IN  RSub(last_e_pos, RMul(e_value, new_extrude_factor))

\* Lines 228-230: the new base_position[3].
M221BaseE(new_extrude_factor) ==
    LET last_e_pos == last_position[4]
        e_value == RDiv(RSub(last_e_pos, base_position[4]), extrude_factor)
    IN  RSub(last_e_pos, RMul(e_value, new_extrude_factor))

\* cmd_M221 checking S > 0 only after lines 228-231 have run.
cmd_M221_CheckedLate(a) ==
    /\ steps < MaxSteps
    /\ IF FloatErr(a.S) # "ok"
       THEN UNCHANGED <<base_position, extrude_factor>>
       ELSE /\ base_position' =
                   [base_position EXCEPT ![4] = M221BaseE(M221Factor(a))]
            /\ extrude_factor' = M221Factor(a)
    /\ Ran("M221", a, FloatAboveErr(a.S), <<>>, "None")
    /\ UNCHANGED <<absolute_coord, absolute_extrude, last_position,
                   homing_position, speed, speed_factor,
                   bvars, saved_states, is_printer_ready, v_sd>>

cmd_M221(a) ==
    /\ steps < MaxSteps
    /\ IF FloatAboveErr(a.S) # "ok"
       THEN UNCHANGED <<base_position, extrude_factor>>
       ELSE /\ base_position' =
                   [base_position EXCEPT ![4] = M221BaseE(M221Factor(a))]
            /\ extrude_factor' = M221Factor(a)
    /\ Ran("M221", a, FloatAboveErr(a.S), <<>>, "None")
    /\ UNCHANGED <<absolute_coord, absolute_extrude, last_position,
                   homing_position, speed, speed_factor,
                   bvars, saved_states, is_printer_ready, v_sd>>

-----------------------------------------------------------------------------
\* cmd_SET_GCODE_OFFSET.  An axis argument is "num" (X=v), "adjust"
\* (X_ADJUST=v, X absent), "bad" (the value read does not parse) or "none".

AdjustParam(r) == [t |-> "adjust", v |-> r]

\* Axis (1..4) whose get_float raises, 5 when none does.
OffsetStop(a) ==
    IF \E i \in 1..4 : a[AxisLetter[i]].t = "bad"
    THEN CHOOSE i \in 1..4 :
            /\ a[AxisLetter[i]].t = "bad"
            /\ \A j \in 1..(i - 1) : a[AxisLetter[j]].t # "bad"
    ELSE 5

\* Whether the loop body runs to line 242 for this axis.
OffsetReached(a, pos) ==
    a[AxisLetter[pos]].t \in {"num", "adjust"} /\ pos < OffsetStop(a)

\* Lines 236-241: offset.
OffsetValue(a, pos) ==
    LET x == a[AxisLetter[pos]]
    IN  IF x.t = "adjust" THEN RAdd(x.v, homing_position[pos]) ELSE x.v

\* Lines 242-243: move_delta.
OffsetDelta(a, pos) ==
    IF OffsetReached(a, pos)
    THEN RSub(OffsetValue(a, pos), homing_position[pos])
    ELSE Zero

\* Lines 244-245.
OffsetBase(a) == [i \in 1..4 |-> RAdd(base_position[i], OffsetDelta(a, i))]
OffsetHoming(a) ==
    [i \in 1..4 |->
        IF OffsetReached(a, i) THEN OffsetValue(a, i) ELSE homing_position[i]]

\* Lines 247-248: "ok" also when MOVE is absent or 0.
MoveFlagErr(a) ==
    IF a.MOVE.t = "bad" THEN "parse"
    ELSE IF a.MOVE.t = "num" /\ a.MOVE.v # Zero THEN FloatAboveErr(a.MOVE_SPEED)
    ELSE "ok"

MoveRequested(a) == a.MOVE.t = "num" /\ a.MOVE.v # Zero

\* OffsetLast leaving last_position alone.
OffsetLast_NoDelta(a) == last_position

\* Lines 249-250.
OffsetLast(a) == [i \in 1..4 |-> RAdd(last_position[i], OffsetDelta(a, i))]

cmd_SET_GCODE_OFFSET(a) ==
    /\ steps < MaxSteps
    /\ base_position' = OffsetBase(a)
    /\ homing_position' = OffsetHoming(a)
    /\ IF OffsetStop(a) < 5
       THEN /\ UNCHANGED last_position
            /\ Ran("SET_GCODE_OFFSET", a, "parse", <<>>, "None")
       ELSE IF MoveFlagErr(a) # "ok" \/ ~MoveRequested(a)
       THEN /\ UNCHANGED last_position
            /\ Ran("SET_GCODE_OFFSET", a, MoveFlagErr(a), <<>>, "None")
       ELSE /\ last_position' = OffsetLast(a)
            /\ Ran("SET_GCODE_OFFSET", a, MoveErr,
                   MoveCalls(OffsetLast(a), FloatOr(a.MOVE_SPEED, speed)), "None")
    /\ UNCHANGED <<absolute_coord, absolute_extrude, speed, speed_factor,
                   extrude_factor, bvars, saved_states, is_printer_ready, v_sd>>

-----------------------------------------------------------------------------
\* cmd_SAVE_GCODE_STATE and cmd_RESTORE_GCODE_STATE.

NoName == [t |-> "none", v |-> ""]
Name(n) == [t |-> "str", v |-> n]

\* gcmd.get('NAME', 'default')
StateName(a) == IF a.NAME.t = "none" THEN "default" ELSE a.NAME.v

\* cmd_SAVE_GCODE_STATE replacing the whole dictionary at line 255.
cmd_SAVE_GCODE_STATE_Only(a) ==
    /\ steps < MaxSteps
    /\ saved_states' = (StateName(a) :> StateDict)
    /\ Ran("SAVE_GCODE_STATE", a, "ok", <<>>, "None")
    /\ UNCHANGED <<gvars, bvars, is_printer_ready, v_sd>>

cmd_SAVE_GCODE_STATE(a) ==
    /\ steps < MaxSteps
    /\ saved_states' = (StateName(a) :> StateDict) @@ saved_states
    /\ Ran("SAVE_GCODE_STATE", a, "ok", <<>>, "None")
    /\ UNCHANGED <<gvars, bvars, is_printer_ready, v_sd>>

\* RestoreBase without lines 279-280.
RestoreBase_Verbatim(state) == state.base_position

\* RestoreBase measuring e_diff from the saved base_position.
RestoreBase_FromBase(state) ==
    LET e_diff == RSub(last_position[4], state.base_position[4])
    IN  [state.base_position EXCEPT ![4] = RAdd(state.base_position[4], e_diff)]

\* Lines 273 and 279-280.
RestoreBase(state) ==
    LET e_diff == RSub(last_position[4], state.last_position[4])
    IN  [state.base_position EXCEPT ![4] = RAdd(state.base_position[4], e_diff)]

\* RestoreLast copying all four axes of the saved last_position.
RestoreLast_All(state) == state.last_position

\* Line 284.
RestoreLast(state) ==
    [i \in 1..4 |-> IF i <= 3 THEN state.last_position[i] ELSE last_position[i]]

cmd_RESTORE_GCODE_STATE(a) ==
    /\ steps < MaxSteps
    /\ IF StateName(a) \notin DOMAIN saved_states
       THEN /\ UNCHANGED gvars
            /\ Ran("RESTORE_GCODE_STATE", a, "unknown_state", <<>>, "None")
       ELSE LET state == saved_states[StateName(a)]
            IN  /\ absolute_coord' = state.absolute_coord
                /\ absolute_extrude' = state.absolute_extrude
                /\ base_position' = RestoreBase(state)
                /\ homing_position' = state.homing_position
                /\ speed' = state.speed
                /\ speed_factor' = state.speed_factor
                /\ extrude_factor' = state.extrude_factor
                /\ IF MoveFlagErr(a) # "ok" \/ ~MoveRequested(a)
                   THEN /\ UNCHANGED last_position
                        /\ Ran("RESTORE_GCODE_STATE", a, MoveFlagErr(a), <<>>, "None")
                   ELSE /\ last_position' = RestoreLast(state)
                        /\ Ran("RESTORE_GCODE_STATE", a, MoveErr,
                               MoveCalls(RestoreLast(state),
                                         FloatOr(a.MOVE_SPEED, state.speed)),
                               "None")
    /\ UNCHANGED <<bvars, saved_states, is_printer_ready, v_sd>>

-----------------------------------------------------------------------------
\* Event handlers and set_move_transform.

\* self.position_with_transform(): the lambda of __init__ returns zeros; a
\* provider returns the position q it reports.
QueryPosition(provider, q) == IF provider = "lambda" THEN ZeroPos ELSE q

\* ResetLast without the test of line 119.
ResetLast_Unconditional(q) == QueryPosition(position_with_transform, q)

\* reset_last_position, lines 118-120.
ResetLast(q) ==
    IF is_printer_ready
    THEN QueryPosition(position_with_transform, q)
    ELSE last_position

_handle_ready(q) ==
    /\ steps < MaxSteps
    /\ is_printer_ready' = TRUE
    /\ IF move_transform = "None"
       THEN /\ move_with_transform' = "toolhead"
            /\ position_with_transform' = "toolhead"
       ELSE UNCHANGED <<move_with_transform, position_with_transform>>
    /\ last_position' =
          QueryPosition(IF move_transform = "None" THEN "toolhead"
                        ELSE position_with_transform, q)
    /\ v_sd' = "set"
    /\ Ran("klippy:ready", q, "ok", <<>>, "None")
    /\ UNCHANGED <<absolute_coord, absolute_extrude, base_position,
                   homing_position, speed, speed_factor, extrude_factor,
                   move_transform, saved_states>>

_handle_shutdown ==
    /\ steps < MaxSteps
    /\ is_printer_ready' = FALSE
    /\ Ran("klippy:shutdown", <<>>, "ok", <<>>, "None")
    /\ UNCHANGED <<gvars, bvars, saved_states, v_sd>>

\* toolhead:set_position, toolhead:manual_move, gcode:command_error.
ResetEvents == {"toolhead:set_position", "toolhead:manual_move",
                "gcode:command_error"}

reset_last_position(ev, q) ==
    /\ steps < MaxSteps
    /\ last_position' = ResetLast(q)
    /\ Ran(ev, q, "ok", <<>>, "None")
    /\ UNCHANGED <<absolute_coord, absolute_extrude, base_position,
                   homing_position, speed, speed_factor, extrude_factor,
                   bvars, saved_states, is_printer_ready, v_sd>>

\* _handle_activate_extruder without line 82.
_handle_activate_extruder_NoPin(q) ==
    /\ steps < MaxSteps
    /\ last_position' = ResetLast(q)
    /\ extrude_factor' = One
    /\ UNCHANGED base_position
    /\ Ran("extruder:activate_extruder", q, "ok", <<>>, "None")
    /\ UNCHANGED <<absolute_coord, absolute_extrude, homing_position, speed,
                   speed_factor, bvars, saved_states, is_printer_ready, v_sd>>

_handle_activate_extruder(q) ==
    /\ steps < MaxSteps
    /\ last_position' = ResetLast(q)
    /\ extrude_factor' = One
    /\ base_position' = [base_position EXCEPT ![4] = ResetLast(q)[4]]
    /\ Ran("extruder:activate_extruder", q, "ok", <<>>, "None")
    /\ UNCHANGED <<absolute_coord, absolute_extrude, homing_position, speed,
                   speed_factor, bvars, saved_states, is_printer_ready, v_sd>>

\* axes: homing_state.get_axes(), Python indices 0..2 as 1..3.
_handle_home_rails_end(axes, q) ==
    /\ steps < MaxSteps
    /\ last_position' = ResetLast(q)
    /\ base_position' =
          [i \in 1..4 |->
              IF i \in axes THEN homing_position[i] ELSE base_position[i]]
    /\ Ran("homing:home_rails_end", [axes |-> axes, q |-> q], "ok", <<>>, "None")
    /\ UNCHANGED <<absolute_coord, absolute_extrude, homing_position, speed,
                   speed_factor, extrude_factor, bvars, saved_states,
                   is_printer_ready, v_sd>>

\* set_move_transform without the check of lines 88-90.
set_move_transform_Unguarded(transform, force) ==
    /\ steps < MaxSteps
    /\ move_transform' = transform
    /\ move_with_transform' = transform
    /\ position_with_transform' = transform
    /\ Ran("set_move_transform",
           [transform |-> transform, force |-> force], "ok", <<>>,
           IF move_transform = "None" THEN "toolhead" ELSE move_transform)
    /\ UNCHANGED <<gvars, saved_states, is_printer_ready, v_sd>>

set_move_transform(transform, force) ==
    /\ steps < MaxSteps
    /\ IF move_transform # "None" /\ ~force
       THEN /\ UNCHANGED bvars
            /\ Ran("set_move_transform",
                   [transform |-> transform, force |-> force],
                   "already_bound", <<>>, "None")
       ELSE /\ move_transform' = transform
            /\ move_with_transform' = transform
            /\ position_with_transform' = transform
            /\ Ran("set_move_transform",
                   [transform |-> transform, force |-> force], "ok", <<>>,
                   IF move_transform = "None" THEN "toolhead" ELSE move_transform)
    /\ UNCHANGED <<gvars, saved_states, is_printer_ready, v_sd>>

-----------------------------------------------------------------------------
\* Input alphabets.  The last operation of a run draws its arguments from
\* the wide alphabets, the operations before it from the narrow ones.

Wide == steps = MaxSteps - 1

Count(S) == Cardinality(S)

\* Moves: at most one letter whose value raises.
G1Wide ==
    {q : q \in {p \in G1Params : Count({k \in 1..5 : G1Fails(p, k)}) <= 1}}

G1Move(x, y, z, e, f) == [X |-> x, Y |-> y, Z |-> z, E |-> e, F |-> f]

G1Few ==
    {G1Move(NoParam, NoParam, NoParam, NumParam(Num(1)), NoParam),
     G1Move(NumParam(Num(1)), NoParam, NoParam, NoParam, NoParam),
     G1Move(NumParam(Num(1)), NumParam(Num(2)), NumParam(Num(3)),
            NumParam(Num(1)), NumParam(Num(60)))}

G1Inputs == IF Wide THEN G1Wide ELSE G1Few

\* Axis arguments of G92 and SET_GCODE_OFFSET.
AxisArgs(kinds) ==
    {a \in [{"X", "Y", "Z", "E"} -> kinds] :
        \A l \in {"X", "Y", "Z", "E"} :
            a[l].t \in {"num", "adjust"} => a[l].v = CHOOSE r \in MoveValue(l) : TRUE}

Present(a) == {l \in {"X", "Y", "Z", "E"} : a[l].t # "none"}
Odd(a) == {l \in {"X", "Y", "Z", "E"} : a[l].t \in {"bad", "adjust"}}

AxisValues == {Num(1), Num(2), Num(3)}

G92Wide ==
    {b : b \in
        {a \in AxisArgs({NoParam, BadParam} \cup {NumParam(r) : r \in AxisValues}) :
            Odd(a) = {} \/ (Count(Odd(a)) = 1 /\ Count(Present(a)) <= 2)}}

G92Few ==
    {[X |-> NoParam, Y |-> NoParam, Z |-> NoParam, E |-> NoParam],
     [X |-> NumParam(Num(1)), Y |-> NoParam, Z |-> NoParam, E |-> NumParam(Num(1))]}

G92Inputs == IF Wide THEN G92Wide ELSE G92Few

SWide == {[S |-> x] : x \in {NoParam, BadParam, NumParam(Num(0)),
                              NumParam(Num(50)), NumParam(Num(200))}}
SFew == {[S |-> NumParam(Num(50))]}
SInputs == IF Wide THEN SWide ELSE SFew

MoveFlags ==
    {[MOVE |-> NoParam, MOVE_SPEED |-> NoParam],
     [MOVE |-> NumParam(Num(0)), MOVE_SPEED |-> NoParam],
     [MOVE |-> NumParam(Num(1)), MOVE_SPEED |-> NoParam],
     [MOVE |-> NumParam(Num(1)), MOVE_SPEED |-> NumParam(Num(2))],
     [MOVE |-> NumParam(Num(1)), MOVE_SPEED |-> NumParam(Num(0))],
     [MOVE |-> NumParam(Num(1)), MOVE_SPEED |-> BadParam],
     [MOVE |-> BadParam, MOVE_SPEED |-> NoParam]}

PlainFlags ==
    {[MOVE |-> NoParam, MOVE_SPEED |-> NoParam],
     [MOVE |-> NumParam(Num(1)), MOVE_SPEED |-> NoParam]}

OffsetArgs(a, m) ==
    [X |-> a["X"], Y |-> a["Y"], Z |-> a["Z"], E |-> a["E"],
     MOVE |-> m.MOVE, MOVE_SPEED |-> m.MOVE_SPEED]

OffsetAxes ==
    {b : b \in
        {a \in AxisArgs({NoParam, BadParam} \cup {NumParam(r) : r \in AxisValues}
                        \cup {AdjustParam(r) : r \in AxisValues}) :
            Odd(a) = {} \/ (Count(Odd(a)) = 1 /\ Count(Present(a)) <= 2)}}

OffsetWide ==
    {OffsetArgs(a, m) : a \in OffsetAxes, m \in PlainFlags}
    \cup {OffsetArgs(a, m) : a \in {x \in OffsetAxes : Odd(x) = {} /\ Count(Present(x)) <= 1},
                             m \in MoveFlags}

OffsetFew ==
    {[X |-> NoParam, Y |-> NoParam, Z |-> NumParam(Num(3)), E |-> NumParam(Num(1)),
      MOVE |-> NoParam, MOVE_SPEED |-> NoParam]}

OffsetInputs == IF Wide THEN OffsetWide ELSE OffsetFew

SaveWide == {[NAME |-> n] : n \in {NoName, Name("default"), Name("a")}}
SaveFew == {[NAME |-> NoName]}
SaveInputs == IF Wide THEN SaveWide ELSE SaveFew

RestoreArgs(n, m) == [NAME |-> n, MOVE |-> m.MOVE, MOVE_SPEED |-> m.MOVE_SPEED]
RestoreWide ==
    {RestoreArgs(n, m) : n \in {NoName, Name("default"), Name("a")}, m \in MoveFlags}
RestoreFew == {RestoreArgs(NoName, [MOVE |-> NoParam, MOVE_SPEED |-> NoParam])}
RestoreInputs == IF Wide THEN RestoreWide ELSE RestoreFew

\* Positions a provider reports.
Reported == <<Num(4), Num(5), Num(6), Num(2)>>
QueryWide == {ZeroPos, Reported}
QueryFew == {Reported}
QueryInputs == IF Wide THEN QueryWide ELSE QueryFew

Transforms == {"bed_mesh", "skew_correction"}
TransformInputs == IF Wide THEN Transforms ELSE {"bed_mesh"}

-----------------------------------------------------------------------------

\* Commands and events without arguments, by tier.
ModeInputs ==
    IF Wide THEN {"G20", "G21", "M82", "M83", "G90", "G91", "M114"}
    ELSE {"M83", "G91"}
EventInputs ==
    IF Wide THEN ResetEvents \cup {"klippy:shutdown"} ELSE {"klippy:shutdown"}
AxesInputs == IF Wide THEN SUBSET {1, 2, 3} ELSE {}
ForceInputs == IF Wide THEN BOOLEAN ELSE {FALSE}

Next ==
    \/ \E p \in G1Inputs, persist \in {"skip", "raise"} : cmd_G1(p, persist)
    \/ "G20" \in ModeInputs /\ cmd_G20
    \/ "G21" \in ModeInputs /\ cmd_G21
    \/ "M82" \in ModeInputs /\ cmd_M82
    \/ "M83" \in ModeInputs /\ cmd_M83
    \/ "G90" \in ModeInputs /\ cmd_G90
    \/ "G91" \in ModeInputs /\ cmd_G91
    \/ \E a \in G92Inputs : cmd_G92(a)
    \/ "M114" \in ModeInputs /\ cmd_M114
    \/ \E a \in SInputs : cmd_M220(a)
    \/ \E a \in SInputs : cmd_M221(a)
    \/ \E a \in OffsetInputs : cmd_SET_GCODE_OFFSET(a)
    \/ \E a \in SaveInputs : cmd_SAVE_GCODE_STATE(a)
    \/ \E a \in RestoreInputs : cmd_RESTORE_GCODE_STATE(a)
    \/ \E q \in QueryInputs : _handle_ready(q)
    \/ "klippy:shutdown" \in EventInputs /\ _handle_shutdown
    \/ \E ev \in EventInputs \cap ResetEvents, q \in QueryInputs :
          reset_last_position(ev, q)
    \/ Wide /\ \E q \in QueryInputs : _handle_activate_extruder(q)
    \/ \E axes \in AxesInputs, q \in QueryInputs : _handle_home_rails_end(axes, q)
    \/ \E t \in TransformInputs, force \in ForceInputs : set_move_transform(t, force)

Spec == Init /\ [][Next]_vars

-----------------------------------------------------------------------------
\* Properties.  pre is the coordinate state before the operation op, the
\* unprimed variables the state after it.

\* logical_position() of a recorded coordinate state.
LogicalOf(st) ==
    [i \in 1..4 |->
        IF i = 4
        THEN RDiv(RSub(st.last_position[4], st.base_position[4]), st.extrude_factor)
        ELSE RSub(st.last_position[i], st.base_position[i])]

Letters(a, kinds) == {l \in {"X", "Y", "Z", "E"} : a[l].t \in kinds}

\* C1 (as claimed): a move with a non-numeric value for a present parameter
\* fails with a parse error and, when it returns, last_position,
\* base_position, homing_position, the feed rate, both scales and both mode
\* flags equal their values before the call.  (Runs in which the block of
\* lines 135-158 raised first are left aside.)
C1_AllOrNothingParse ==
    (/\ op.name = "G1"
     /\ op.err # "internal"
     /\ \E k \in 1..5 : op.args[MoveLetter[k]].t = "bad")
    => (op.err = "parse" /\ StateDict = pre)

\* C2 (as claimed): a move whose F is <= 0, its other parameters numeric or
\* absent, fails with an invalid-parameter error, issues no move and leaves
\* the whole coordinate state as it was before the call.
C2_BadFeedRejected ==
    (/\ op.name = "G1"
     /\ op.err # "internal"
     /\ op.args["F"].t = "num" /\ RLe(op.args["F"].v, Zero)
     /\ \A k \in 1..4 : op.args[MoveLetter[k]].t # "bad")
    => (op.err = "invalid" /\ op.moves = <<>> /\ StateDict = pre)

\* A SET_GCODE_OFFSET call that gave only explicit (non-adjust) values and
\* returned without error.
ExplicitOffset ==
    /\ op.name = "SET_GCODE_OFFSET"
    /\ op.err = "ok"
    /\ Letters(op.args, {"bad", "adjust"}) = {}

\* C3 (as claimed): after a set-offset with explicit values, with or without
\* MOVE, logical_position() equals its value before the call on every axis.
C3_OffsetKeepsLogical ==
    ExplicitOffset => _get_gcode_position = LogicalOf(pre)

\* The change of homing_position[i] an explicit set-offset asked for, in
\* logical units of axis i.
OffsetShift(i) ==
    LET x == op.args[AxisLetter[i]]
        d == IF x.t = "num" THEN RSub(x.v, pre.homing_position[i]) ELSE Zero
    IN  IF i = 4 THEN RDiv(d, pre.extrude_factor) ELSE d

\* C3 (amended): after a set-offset with explicit values, logical_position()
\* equals its value before the call on every axis when MOVE was requested;
\* without MOVE each axis given moves by minus the change of its
\* homing_position (divided by extrude_factor for E) and the axes not given
\* keep their logical position.
C3_OffsetFrame ==
    ExplicitOffset =>
        \A i \in 1..4 :
            _get_gcode_position[i] =
                IF MoveRequested(op.args) THEN LogicalOf(pre)[i]
                ELSE RSub(LogicalOf(pre)[i], OffsetShift(i))

C3_Witness ==
    /\ ExplicitOffset
    /\ MoveRequested(op.args)
    /\ Letters(op.args, {"num"}) = {"X", "Z", "E"}
    /\ pre.homing_position[3] # Zero
    /\ homing_position # pre.homing_position
    /\ pre.last_position # pre.base_position

\* A RESTORE_GCODE_STATE that found its snapshot, and that snapshot.
Restored == op.name = "RESTORE_GCODE_STATE" /\ op.err # "unknown_state"
Snapshot == saved_states[StateName(op.args)]

\* What ran between the save of the restored name and this restore.
Between == op.hist[StateName(op.args)]

\* C4 (as claimed): after save, extrusion moves, restore, the logical E
\* equals saved_E + (pre_restore_E - saved_E): the extrusion since the save
\* stays in the logical E position.
C4_DeltaKeptInLogicalE ==
    (Restored /\ Between \in {"saved", "extruded"}) =>
        _get_gcode_position[4] =
            RAdd(LogicalOf(Snapshot)[4],
                 RSub(LogicalOf(pre)[4], LogicalOf(Snapshot)[4]))

\* C4 (amended): after save, extrusion moves, restore, the logical E equals
\* the logical E at save time, while last_position[E] equals its saved value
\* plus the extrusion since the save (restore does not write it).
C4_DeltaKeptInLastE ==
    (Restored /\ Between \in {"saved", "extruded"}) =>
        /\ _get_gcode_position[4] = LogicalOf(Snapshot)[4]
        /\ last_position[4] =
              RAdd(Snapshot.last_position[4],
                   RSub(pre.last_position[4], Snapshot.last_position[4]))

C4_Witness ==
    /\ Restored
    /\ op.err = "ok"
    /\ Between = "extruded"
    /\ pre.last_position[4] # Snapshot.last_position[4]
    /\ Snapshot.last_position[4] # Snapshot.base_position[4]

\* C5: save immediately followed by restore of the same name, with or
\* without MOVE, leaves logical_position(), both mode flags, the three
\* position vectors, the feed rate and both scales as they were before the
\* save.
C5_SaveRestoreRoundTrip ==
    (Restored /\ Between = "saved") =>
        (StateDict = pre /\ _get_gcode_position = LogicalOf(pre))

C5_Witness ==
    /\ Restored
    /\ op.err = "ok"
    /\ MoveRequested(op.args)
    /\ Between = "saved"
    /\ pre.last_position[4] # pre.base_position[4]
    /\ pre.base_position[4] # Zero
    /\ pre.extrude_factor # One

\* The same successful move is applied in this step as in the one before.
SameMoveAgain ==
    /\ op.name = "G1" /\ op.err = "ok"
    /\ op'.name = "G1" /\ op'.err = "ok"
    /\ op'.args = op.args
    /\ absolute_coord

\* C6 (as claimed): with absolute_coord true, whatever absolute_extrude is,
\* applying the same move a second time leaves last_position where the first
\* application put it.
C6_AbsoluteIdempotent ==
    [][SameMoveAgain => last_position' = last_position]_vars

\* C6 (amended): the same, for moves without E or made with absolute_extrude
\* true as well.
C6_AbsoluteIdempotentXYZ ==
    [][(SameMoveAgain /\ (absolute_extrude \/ op.args["E"].t = "none"))
         => last_position' = last_position]_vars

C6_Witness ==
    /\ op.name = "G1" /\ op.err = "ok"
    /\ pre.absolute_coord /\ pre.absolute_extrude
    /\ Letters(op.args, {"num"}) = {"X", "Y", "Z", "E"}
    /\ pre.last_position = last_position
    /\ pre.base_position[1] # Zero
    /\ steps = MaxSteps

\* A move that returned without error, and the state its rules start from.
Moved == op.name = "G1" /\ op.err = "ok"

\* C7: a successful move with E = v puts last_position[E] at
\* v * extrude_factor + base_position[E] when absolute_coord and
\* absolute_extrude are both true, and adds v * extrude_factor to it in the
\* three other flag combinations.
C7_ExtrudeRule ==
    (Moved /\ op.args["E"].t = "num") =>
        last_position[4] =
            IF pre.absolute_coord /\ pre.absolute_extrude
            THEN RAdd(RMul(op.args["E"].v, pre.extrude_factor), pre.base_position[4])
            ELSE RAdd(pre.last_position[4], RMul(op.args["E"].v, pre.extrude_factor))

C7_Witness ==
    /\ Moved
    /\ op.args["E"].t = "num"
    /\ pre.absolute_coord /\ ~pre.absolute_extrude
    /\ pre.last_position[4] # pre.base_position[4]
    /\ pre.extrude_factor # One

\* C8: a successful move puts each of X, Y, Z given with value v at
\* v + base_position[axis] when absolute_coord is true (logical position v)
\* and adds v when it is false, whatever absolute_extrude is; axes not given
\* keep their last_position; base_position and homing_position are
\* unchanged; and the provider's move is called exactly once, with the
\* updated last_position and the current feed rate.
C8_AxisRule ==
    Moved =>
        /\ \A i \in 1..3 :
              LET x == op.args[AxisLetter[i]]
              IN  /\ x.t = "num" /\ pre.absolute_coord =>
                        /\ last_position[i] = RAdd(x.v, pre.base_position[i])
                        /\ _get_gcode_position[i] = x.v
                  /\ x.t = "num" /\ ~pre.absolute_coord =>
                        last_position[i] = RAdd(pre.last_position[i], x.v)
        /\ \A i \in 1..4 :
              op.args[AxisLetter[i]].t = "none" =>
                  last_position[i] = pre.last_position[i]
        /\ base_position = pre.base_position
        /\ homing_position = pre.homing_position
        /\ op.moves = <<[to |-> move_with_transform, pos |-> last_position,
                         speed |-> speed]>>

C8_Witness ==
    /\ Moved
    /\ Letters(op.args, {"num"}) = {"X", "Y"}
    /\ op.args["F"].t = "num"
    /\ pre.absolute_coord /\ ~pre.absolute_extrude
    /\ pre.base_position[1] # Zero
    /\ pre.last_position[3] # Zero
    /\ Len(op.moves) = 1

\* C9: G92 without axis arguments makes logical_position() zero on all four
\* axes; with values it makes logical_position()[axis] the given value for
\* each axis given (E included, whatever extrude_factor is) and leaves the
\* logical position of the other axes, last_position and homing_position
\* unchanged.
C9_OriginRule ==
    (op.name = "G92" /\ op.err = "ok") =>
        /\ Letters(op.args, {"num"}) = {} =>
              _get_gcode_position = ZeroPos
        /\ Letters(op.args, {"num"}) # {} =>
              \A i \in 1..4 :
                  _get_gcode_position[i] =
                      IF op.args[AxisLetter[i]].t = "num"
                      THEN op.args[AxisLetter[i]].v
                      ELSE LogicalOf(pre)[i]
        /\ last_position = pre.last_position
        /\ homing_position = pre.homing_position

C9_Witness ==
    /\ op.name = "G92" /\ op.err = "ok"
    /\ Letters(op.args, {"num"}) = {"Y", "E"}
    /\ pre.extrude_factor # One
    /\ LogicalOf(pre)[4] # op.args["E"].v
    /\ LogicalOf(pre)[1] # Zero

\* C10: a successful M221 with S > 0 sets extrude_factor to S/100 and leaves
\* logical_position() (E as well as X, Y, Z) and last_position as they were.
C10_ExtrudeOverrideContinuity ==
    (op.name = "M221" /\ op.err = "ok" /\ op.args.S.t = "num") =>
        /\ extrude_factor = RDiv(op.args.S.v, Num(100))
        /\ _get_gcode_position = LogicalOf(pre)
        /\ last_position = pre.last_position

C10_Witness ==
    /\ op.name = "M221" /\ op.err = "ok" /\ op.args.S.t = "num"
    /\ pre.extrude_factor # One
    /\ extrude_factor # pre.extrude_factor
    /\ LogicalOf(pre)[4] # Zero

\* C11: a successful M220 with S > 0 sets speed_factor to S/6000 and rescales
\* speed so that speed / speed_factor is what it was before the call; the
\* three position vectors, extrude_factor and both mode flags keep their
\* values.
C11_FeedOverrideContinuity ==
    (op.name = "M220" /\ op.err = "ok" /\ op.args.S.t = "num") =>
        /\ speed_factor = RDiv(op.args.S.v, Num(6000))
        /\ _get_gcode_speed = RDiv(pre.speed, pre.speed_factor)
        /\ [StateDict EXCEPT !.speed = pre.speed,
                             !.speed_factor = pre.speed_factor] = pre

C11_Witness ==
    /\ op.name = "M220" /\ op.err = "ok" /\ op.args.S.t = "num"
    /\ pre.speed_factor # Rat(1, 60)
    /\ speed_factor # pre.speed_factor
    /\ RDiv(pre.speed, pre.speed_factor) # Num(1500)
    /\ pre.last_position # pre.base_position

\* An M220 or M221 whose S is a number <= 0.
OverrideNotPositive ==
    /\ op.name \in {"M220", "M221"}
    /\ op.args.S.t = "num"
    /\ RLe(op.args.S.v, Zero)

\* C12: M220 and M221 called with S <= 0 fail with an invalid-parameter
\* error and leave speed, speed_factor, extrude_factor, base_position,
\* last_position, homing_position and both mode flags as they were.
C12_OverrideRejected ==
    OverrideNotPositive => (op.err = "invalid" /\ StateDict = pre)

C12_Witness ==
    /\ OverrideNotPositive
    /\ op.name = "M221"
    /\ op.err = "invalid"
    /\ pre.extrude_factor # One
    /\ pre.last_position[4] # pre.base_position[4]

\* C13: once a transform is bound, one stays bound, and a set_move_transform
\* call without force succeeds only while none is bound, so at most one such
\* call ever succeeds.  Made without force while a transform is bound, the
\* call fails with the already-bound error and leaves move_with_transform
\* and position_with_transform as they were; otherwise it succeeds, makes
\* both forward to the new transform in that step, and returns the transform
\* bound before (the toolhead when none was).
C13_SingleOwnership ==
    [][/\ move_transform # "None" => move_transform' # "None"
       /\ op'.name = "set_move_transform" =>
             IF move_transform # "None" /\ ~op'.args.force
             THEN /\ op'.err = "already_bound"
                  /\ UNCHANGED bvars
             ELSE /\ op'.err = "ok"
                  /\ move_transform' = op'.args.transform
                  /\ move_with_transform' = op'.args.transform
                  /\ position_with_transform' = op'.args.transform
                  /\ op'.ret = IF move_transform = "None" THEN "toolhead"
                               ELSE move_transform]_vars

C13_Witness ==
    /\ op.name = "set_move_transform"
    /\ op.err = "ok"
    /\ op.args.force
    /\ op.ret = "bed_mesh"
    /\ move_with_transform = "skew_correction"
    /\ position_with_transform = "skew_correction"
    /\ is_printer_ready

\* No set_move_transform call and no ready event has installed a provider.
PreBound ==
    /\ move_transform = "None"
    /\ move_with_transform = "None"
    /\ position_with_transform = "lambda"

\* The operation op reached its call of move_with_transform: a G1 whose
\* parameters are all valid (and that skipped lines 135-158), or a
\* SET_GCODE_OFFSET or RESTORE_GCODE_STATE with MOVE and valid arguments.
MoveIssued ==
    \/ /\ op.name = "G1"
       /\ \A k \in 1..5 : op.args[MoveLetter[k]].t # "bad"
       /\ ~(op.args["F"].t = "num" /\ RLe(op.args["F"].v, Zero))
       /\ \E k \in 1..3 : op.args[MoveLetter[k]].t = "none"
    \/ /\ op.name = "SET_GCODE_OFFSET"
       /\ Letters(op.args, {"bad"}) = {}
       /\ MoveRequested(op.args) /\ MoveFlagErr(op.args) = "ok"
    \/ /\ Restored
       /\ MoveRequested(op.args) /\ MoveFlagErr(op.args) = "ok"

\* C14 (as claimed): before any provider is bound, position_with_transform()
\* returns four zeros, and an operation that issues a move through
\* move_with_transform completes without error and reaches no provider.
C14_PreBoundNoOp ==
    PreBound =>
        /\ QueryPosition(position_with_transform, Reported) = ZeroPos
        /\ MoveIssued => (op.err = "ok" /\ op.moves = <<>>)

\* C15 (as claimed): when SET_GCODE_OFFSET, G92 or RESTORE_GCODE_STATE
\* returns a parse, invalid-parameter or unknown-state error, both mode
\* flags, base_position, homing_position, last_position, speed and both
\* factors equal their values before the call and no move was issued; a
\* restore of a name that has no snapshot returns the unknown-state error.
C15_NoPartialMutation ==
    /\ (/\ op.name \in {"SET_GCODE_OFFSET", "G92", "RESTORE_GCODE_STATE"}
        /\ op.err \in {"parse", "invalid", "unknown_state"})
       => (StateDict = pre /\ op.moves = <<>>)
    /\ (/\ op.name = "RESTORE_GCODE_STATE"
        /\ StateName(op.args) \notin DOMAIN saved_states)
       => op.err = "unknown_state"

\* A resynchronisation event (set-position, manual-move, command-error or
\* homing-completion) was just handled; Delivered is the position the
\* provider's get_position() returned, or would have returned, for it.
ResyncEvent == op.name \in ResetEvents \cup {"homing:home_rails_end"}
Delivered ==
    QueryPosition(position_with_transform,
                  IF op.name = "homing:home_rails_end" THEN op.args.q ELSE op.args)

\* C16 (as claimed): after every delivery of a resynchronisation event, in
\* any order relative to ready, shutdown and set_move_transform,
\* last_position equals the position the bound provider reports.
C16_ResyncAlways ==
    (ResyncEvent /\ position_with_transform # "lambda") =>
        last_position = Delivered

\* C16 (amended): a resynchronisation event delivered while the printer is
\* ready (after a ready event with no shutdown since) sets last_position to
\* the position the bound provider reports; delivered before ready or after
\* shutdown it leaves last_position as it was.
C16_ResyncWhenReady ==
    ResyncEvent =>
        last_position = IF is_printer_ready THEN Delivered ELSE pre.last_position

C16_Witness ==
    /\ ResyncEvent
    /\ is_printer_ready
    /\ position_with_transform = "bed_mesh"
    /\ last_position = Delivered
    /\ last_position # pre.last_position

\* C17: in every reachable state, whatever operations ran and whichever of
\* them failed, speed_factor > 0 and extrude_factor > 0.
C17_ScalesPositive ==
    /\ RLt(Zero, speed_factor)
    /\ RLt(Zero, extrude_factor)

C17_Witness ==
    /\ op.name = "M220"
    /\ op.err = "invalid"
    /\ speed_factor # Rat(1, 60)
    /\ extrude_factor # One
    /\ C17_ScalesPositive

\* The name a SAVE_GCODE_STATE or RESTORE_GCODE_STATE call names: NAME, or
\* "default" when NAME is missing.
NamedBy(a) == IF a.NAME.t = "none" THEN "default" ELSE a.NAME.v

\* C18: a save stores under its name (missing NAME meaning "default") the
\* full state it ran in; every other step, and a save under another name,
\* keeps each stored snapshot exactly as it is; and a restore that finds its
\* snapshot sets both mode flags, homing_position, speed, both factors and
\* X/Y/Z of base_position to the values stored in it, so two restores of a
\* name with no save of that name between them restore the same values.
C18_SnapshotsIndependent ==
    [][/\ \A n \in DOMAIN saved_states :
             (op'.name = "SAVE_GCODE_STATE" /\ NamedBy(op'.args) = n)
             \/ (n \in DOMAIN saved_states' /\ saved_states'[n] = saved_states[n])
       /\ op'.name = "SAVE_GCODE_STATE" =>
             /\ NamedBy(op'.args) \in DOMAIN saved_states'
             /\ saved_states'[NamedBy(op'.args)] = StateDict
             /\ StateDict' = StateDict
       /\ (op'.name = "RESTORE_GCODE_STATE" /\ op'.err # "unknown_state") =>
             LET state == saved_states[NamedBy(op'.args)]
             IN  /\ absolute_coord' = state.absolute_coord
                 /\ absolute_extrude' = state.absolute_extrude
                 /\ homing_position' = state.homing_position
                 /\ speed' = state.speed
                 /\ speed_factor' = state.speed_factor
                 /\ extrude_factor' = state.extrude_factor
                 /\ \A i \in 1..3 : base_position'[i] = state.base_position[i]]_vars

\* A restore, after operations other than extrusion moves since the save,
\* that brought back a homing_position and factors that had changed.
C18_Witness ==
    /\ Restored
    /\ Between = "other"
    /\ pre.homing_position # Snapshot.homing_position
    /\ pre.base_position # Snapshot.base_position
    /\ homing_position = Snapshot.homing_position
    /\ Snapshot # pre

\* The extruder-activation event was just handled in the ready state.
Activated == op.name = "extruder:activate_extruder" /\ is_printer_ready

\* What the event leaves alone: X/Y/Z of base_position, homing_position and
\* both mode flags.
ActivationFrame ==
    /\ \A i \in 1..3 : base_position[i] = pre.base_position[i]
    /\ homing_position = pre.homing_position
    /\ absolute_coord = pre.absolute_coord
    /\ absolute_extrude = pre.absolute_extrude

\* C19 (as claimed): after extruder activation in the ready state,
\* extrude_factor = 1, base_position[E] equals the re-read last_position[E],
\* and logical_position()[E] equals its value immediately before the event;
\* X/Y/Z of base_position, homing_position and the mode flags are unchanged.
C19_ActivationKeepsLogicalE ==
    Activated =>
        /\ extrude_factor = One
        /\ last_position = QueryPosition(position_with_transform, op.args)
        /\ base_position[4] = last_position[4]
        /\ _get_gcode_position[4] = LogicalOf(pre)[4]
        /\ ActivationFrame

\* C19 (amended): after extruder activation in the ready state,
\* extrude_factor = 1, base_position[E] equals the re-read last_position[E],
\* and logical_position()[E] is 0, whatever it was before the event; X/Y/Z
\* of base_position, homing_position and the mode flags are unchanged.
C19_ActivationZeroesLogicalE ==
    Activated =>
        /\ extrude_factor = One
        /\ last_position = QueryPosition(position_with_transform, op.args)
        /\ base_position[4] = last_position[4]
        /\ _get_gcode_position[4] = Zero
        /\ ActivationFrame

C19_Witness ==
    /\ Activated
    /\ LogicalOf(pre)[4] # Zero
    /\ pre.extrude_factor # One
    /\ last_position # pre.last_position
    /\ _get_gcode_position[4] = Zero

\* C20: a restore that finds its snapshot never writes last_position[E], and
\* logical_position()[E] after it equals the logical E recorded in the
\* snapshot, whatever ran since the save.  Returning without error, it
\* leaves all of last_position alone and issues no move when MOVE is absent
\* or 0; with MOVE it copies X, Y and Z of the snapshot's last_position (not
\* E) and issues exactly one move, to the new last_position.
C20_RestoreKeepsE ==
    Restored =>
        /\ last_position[4] = pre.last_position[4]
        /\ _get_gcode_position[4] = LogicalOf(Snapshot)[4]
        /\ (op.err = "ok" /\ ~MoveRequested(op.args)) =>
               (last_position = pre.last_position /\ op.moves = <<>>)
        /\ (MoveRequested(op.args) /\ MoveFlagErr(op.args) = "ok") =>
               \A i \in 1..3 : last_position[i] = Snapshot.last_position[i]
        /\ (op.err = "ok" /\ MoveRequested(op.args)) =>
               /\ Len(op.moves) = 1
               /\ op.moves[1].pos = last_position

C20_Witness ==
    /\ Restored
    /\ op.err = "ok"
    /\ MoveRequested(op.args)
    /\ Len(op.moves) = 1
    /\ Between = "other"
    /\ pre.last_position[4] # Snapshot.last_position[4]
    /\ pre.last_position[1] # Snapshot.last_position[1]
    /\ pre.extrude_factor # Snapshot.extrude_factor
    /\ LogicalOf(pre)[4] # LogicalOf(Snapshot)[4]

====
